---- MODULE Spec2Model ----
(***************************************************************************)
(* The ImGui -> host-engine rendering bridge of selaura::renderer          *)
(* (renderer.cpp): the font texture and its invalidation flag, the         *)
(* per-frame setup, the draw-data transcoder and the rectangle helpers.    *)
(*                                                                         *)
(* Every operation of the renderer is one action.  The host and toolkit    *)
(* calls an operation makes are recorded, in order, in `calls`; `last`     *)
(* remembers which operation ran and the state it was entered with, and    *)
(* `prev` the operation before it.                                         *)
(***************************************************************************)
EXTENDS Integers, Sequences, FiniteSets, TLC

(* ------------------------------ bounds --------------------------------- *)

\* Number of draw lists in one frame's ImDrawData.
MaxLists == 2

\* Number of texture-unload notifications the host sends in a run.
MaxUnloads == 2

(* ------------------------------ inputs --------------------------------- *)

\* CmdBuffer shapes of a draw list: the ElemCount of each command, in order.
ListShapes == { <<3>>, <<6>>, <<3, 3>> }

\* Values of GuiData::getGuiScale().
GuiScales == {1, 2}

\* Values of GuiData::getScreenSize().
ScreenSizes == { <<320, 240>> }

\* Arguments of the rectangle helpers (floats with integral values).
RectPositions == { <<4, 8>> }
RectSizes == { <<10, 20>> }
ColorsRGB == { <<255, 0, 0>>, <<16, 32, 64>> }
ColorsRGBA == { <<255, 0, 0, 255>>, <<16, 32, 64, 1>> }
StrokeWidths == {3}
Radii == {5}
DrawFlags == {0, 240}

(* --------------------------- helper arithmetic ------------------------- *)

RECURSIVE GCD(_, _)
GCD(a, b) == IF b = 0 THEN a ELSE GCD(b, a % b)

\* The float quotient x / s, kept exact as a reduced fraction <<num, den>>.
FloatDiv(x, s) ==
    LET g == GCD(x, s) IN <<x \div g, s \div g>>

RECURSIVE SumTo(_, _)
SumTo(s, k) == IF k = 0 THEN 0 ELSE s[k] + SumTo(s, k - 1)

(* ------------------------- the toolkit's draw data --------------------- *)

\* The vertex buffer of the n-th draw list: a quad, the colour naming the list.
VtxData(n) ==
    [v \in 0..3 |->
        [pos |-> <<3 * v + n, 2 * v + 1>>,
         uv  |-> <<v % 2, v \div 2>>,
         col |-> 10 * n + v]]

\* The index buffer of a quad: two triangles.
IdxPattern == <<0, 1, 2, 0, 2, 3>>

\* A draw list whose commands cover consecutive ranges of its index buffer.
DrawList(n, shape) ==
    [VtxBuffer |-> VtxData(n),
     IdxBuffer |-> [i \in 0..(SumTo(shape, Len(shape)) - 1) |-> IdxPattern[i + 1]],
     CmdBuffer |-> [k \in 1..Len(shape) |->
                      [ElemCount |-> shape[k],
                       IdxOffset |-> SumTo(shape, k - 1)]]]

\* ImDrawData: CmdLists[n], n = 1..CmdListsCount.
DrawData(shapes) == [n \in 1..Len(shapes) |-> DrawList(n, shapes[n])]

\* The frames the toolkit can hand over, each named by the shapes of its lists.
FrameShapes == UNION { [1..k -> ListShapes] : k \in 0..MaxLists }

(* ------------------------------- state --------------------------------- *)

VARIABLES
    textures_unloaded,  \* renderer::textures_unloaded
    texturePtr,         \* renderer::texturePtr: 0 is null, h > 0 was fetched after h-1 unloads
    unloads,            \* unload notifications the host has sent so far
    DisplaySize,        \* ImGui::GetIO().DisplaySize
    TexID,              \* io.Fonts->TexID: "null" or "&texturePtr"
    style,              \* ImGui::GetStyle(): AntiAliasedLines, AntiAliasedFill
    running,            \* FALSE once the process has crashed
    calls,              \* host and toolkit calls made by the last operation
    last,               \* the last operation, its entry state and arguments
    prev                \* the kind of the operation before it and its number of uploads

vars == <<textures_unloaded, texturePtr, unloads, DisplaySize, TexID, style,
          running, calls, last, prev>>

NullTexture == 0

\* A handle is stale when the host unloaded its textures after it was fetched.
Stale(h) == h # NullTexture /\ h <= unloads

Count(s, c) == Cardinality({ i \in 1..Len(s) : s[i].call = c })

Uploads(s) == Count(s, "uploadTexture")

(* ----------------------------- construction ---------------------------- *)

\* The flag after construction: the texture does not exist yet, so the first
\* use has to create it.
InitialTexturesUnloaded == TRUE

Init ==
    /\ textures_unloaded = InitialTexturesUnloaded
    /\ texturePtr = NullTexture
    /\ unloads = 0
    /\ DisplaySize = <<0, 0>>
    /\ TexID = "null"
    /\ style = [AntiAliasedLines |-> TRUE, AntiAliasedFill |-> TRUE]
    /\ running = TRUE
    /\ calls = <<>>
    /\ last = [op |-> "construct", unloadedIn |-> InitialTexturesUnloaded,
               texIn |-> NullTexture, args |-> <<>>]
    /\ prev = [kind |-> "other", uploads |-> 0]

\* What the claims need to know of an earlier operation.
Kind(op) ==
    CASE op \in {"load_fonts", "initialize_imgui"} -> "ensure"
      [] op = "set_textures_unloaded" -> "unload"
      [] OTHER -> "other"

\* Bookkeeping shared by all operations: what ran, and from which state.
Record(op, args) ==
    /\ running
    /\ last' = [op |-> op, unloadedIn |-> textures_unloaded,
                texIn |-> texturePtr, args |-> args]
    /\ prev' = [kind |-> Kind(last.op), uploads |-> Uploads(calls)]

(* ------------------------ Texture Resource Manager --------------------- *)

\* The host unloads its textures and notifies the renderer.
set_textures_unloaded ==
    /\ unloads < MaxUnloads
    /\ unloads' = unloads + 1
    /\ textures_unloaded' = FALSE
    /\ calls' = <<>>
    /\ Record("set_textures_unloaded", <<>>)
    /\ UNCHANGED <<texturePtr, DisplaySize, TexID, style, running>>

\* What ctx.getTexture(resource, false) returns now.
getTexture == unloads + 1

\* A load_fonts that skips the upload while the texture is valid.
LoadFontsCalls_OnlyWhenUnloaded ==
    IF textures_unloaded
    THEN << [call |-> "GetTexDataAsRGBA32"],
            [call |-> "uploadTexture", resource |-> "imgui_font",
             format |-> "R8G8B8A8_UNORM_SRGB", colorSpace |-> "sRGB"],
            [call |-> "getTexture", resource |-> "imgui_font", result |-> getTexture] >>
    ELSE <<>>

\* The calls of load_fonts, in order.
LoadFontsCalls ==
    << [call |-> "GetTexDataAsRGBA32"],
       [call |-> "uploadTexture", resource |-> "imgui_font",
        format |-> "R8G8B8A8_UNORM_SRGB", colorSpace |-> "sRGB"],
       [call |-> "getTexture", resource |-> "imgui_font", result |-> getTexture] >>

\* The assignments of load_fonts.
LoadFontsState ==
    /\ texturePtr' = getTexture
    /\ TexID' = "&texturePtr"
    /\ textures_unloaded' = FALSE

load_fonts ==
    /\ calls' = LoadFontsCalls
    /\ LoadFontsState
    /\ Record("load_fonts", <<>>)
    /\ UNCHANGED <<unloads, DisplaySize, style, running>>

initialize_imgui ==
    /\ style' = [AntiAliasedLines |-> TRUE, AntiAliasedFill |-> TRUE]
    /\ calls' = LoadFontsCalls
    /\ LoadFontsState
    /\ Record("initialize_imgui", <<>>)
    /\ UNCHANGED <<unloads, DisplaySize, running>>

(* ---------------------------- Frame Controller ------------------------- *)

NewFrameCalls == <<>>

\* A new_frame that reloads the font texture when the flag is set.
NewFrameState_Reloading(screenSize) ==
    /\ DisplaySize' = screenSize
    /\ IF textures_unloaded
       THEN LoadFontsState
       ELSE UNCHANGED <<textures_unloaded, texturePtr, TexID>>

NewFrameState(screenSize) ==
    /\ DisplaySize' = screenSize
    /\ UNCHANGED <<textures_unloaded, texturePtr, TexID>>

new_frame ==
    \E screenSize \in ScreenSizes :
        /\ calls' = NewFrameCalls
        /\ NewFrameState(screenSize)
        /\ Record("new_frame", [screenSize |-> screenSize])
        /\ UNCHANGED <<unloads, style, running>>

(* --------------------------- Draw-Data Transcoder ---------------------- *)

\* tess->color(v.col); tess->vertexUV(v.pos.x / scale, v.pos.y / scale, 0, v.uv.x, v.uv.y)
VertexCalls(v, scale) ==
    << [call |-> "color", col |-> v.col],
       [call |-> "vertexUV",
        x |-> FloatDiv(v.pos[1], scale), y |-> FloatDiv(v.pos[2], scale), z |-> 0,
        u |-> v.uv[1], v |-> v.uv[2]] >>

\* One pass of the triangle loop, for loop variable i.
TriangleCalls(cmd_list, i, scale) ==
    LET vtx_buffer == cmd_list.VtxBuffer
        idx_buffer == cmd_list.IdxBuffer
        v0 == vtx_buffer[idx_buffer[i + 2]]
        v1 == vtx_buffer[idx_buffer[i + 1]]
        v2 == vtx_buffer[idx_buffer[i + 0]]
    IN  VertexCalls(v0, scale) \o VertexCalls(v1, scale) \o VertexCalls(v2, scale)

\* for (unsigned int i = 0; i < cmd.ElemCount; i += 3)
RECURSIVE TriangleLoop(_, _, _, _)
TriangleLoop(cmd_list, cmd, scale, i) ==
    IF i < cmd.ElemCount
    THEN TriangleCalls(cmd_list, i, scale) \o TriangleLoop(cmd_list, cmd, scale, i + 3)
    ELSE <<>>

\* The body of the command loop: begin, the triangles, material and flush.
CmdCalls(cmd_list, cmd, scale, tex) ==
    << [call |-> "begin", mode |-> "TriangleList"] >>
    \o TriangleLoop(cmd_list, cmd, scale, 0)
    \o << [call |-> "renderMeshImmediately",
           material |-> "ui_texture_and_color_blur", tex |-> tex] >>

\* for (int cmd_i = 0; cmd_i < cmd_list->CmdBuffer.Size; cmd_i++), CmdBuffer 1-based here
RECURSIVE CmdLoop(_, _, _, _)
CmdLoop(cmd_list, scale, tex, cmd_i) ==
    IF cmd_i <= Len(cmd_list.CmdBuffer)
    THEN CmdCalls(cmd_list, cmd_list.CmdBuffer[cmd_i], scale, tex)
         \o CmdLoop(cmd_list, scale, tex, cmd_i + 1)
    ELSE <<>>

\* A list loop that walks CmdLists from the last list to the first.
RECURSIVE ListLoop_Reversed(_, _, _, _)
ListLoop_Reversed(data, scale, tex, n) ==
    IF n <= Len(data)
    THEN CmdLoop(data[Len(data) + 1 - n], scale, tex, 1)
         \o ListLoop_Reversed(data, scale, tex, n + 1)
    ELSE <<>>

\* for (int n = 0; n < data->CmdListsCount; n++), CmdLists 1-based here
RECURSIVE ListLoop(_, _, _, _)
ListLoop(data, scale, tex, n) ==
    IF n <= Len(data)
    THEN CmdLoop(data[n], scale, tex, 1) \o ListLoop(data, scale, tex, n + 1)
    ELSE <<>>

\* The values texturePtr can take.
Textures == 0..(MaxUnloads + 1)

\* The list loop of every frame, tabulated once.
DrawCalls ==
    [shapes \in FrameShapes, scale \in GuiScales, tex \in Textures |->
        ListLoop(DrawData(shapes), scale, tex, 1)]

\* A render_draw_data that checks the flag after the list loop.
RenderCalls_ReloadAfterDraw(shapes, scale) ==
    IF textures_unloaded
    THEN DrawCalls[shapes, scale, texturePtr] \o LoadFontsCalls
    ELSE DrawCalls[shapes, scale, texturePtr]

\* A render_draw_data that reloads the font texture on every call.
RenderCalls_AlwaysReload(shapes, scale) ==
    LoadFontsCalls \o DrawCalls[shapes, scale, getTexture]

\* All calls of render_draw_data: the reload when the flag is set, then the lists.
RenderCalls(shapes, scale) ==
    IF textures_unloaded
    THEN LoadFontsCalls \o DrawCalls[shapes, scale, getTexture]
    ELSE DrawCalls[shapes, scale, texturePtr]

\* The assignments of render_draw_data: those of load_fonts when the flag is set.
RenderState ==
    IF textures_unloaded
    THEN LoadFontsState
    ELSE UNCHANGED <<textures_unloaded, texturePtr, TexID>>

\* The calls made before the first flush.
BeforeFirstFlush(s) ==
    LET flushes == { i \in 1..Len(s) : s[i].call = "renderMeshImmediately" }
        first == CHOOSE i \in flushes : \A j \in flushes : i <= j
    IN  SubSeq(s, 1, first - 1)

\* *texturePtr.mClientTexture dereferences a null handle when a flush is
\* reached with texturePtr never loaded.
NullDereference(s) ==
    \E i \in 1..Len(s) : s[i].call = "renderMeshImmediately" /\ s[i].tex = NullTexture

\* A null dereference is undefined: the process dies at the first flush, or
\* goes on and hands the host whatever the null handle refers to.
render_draw_data ==
    \E shapes \in FrameShapes, scale \in GuiScales :
        LET c == RenderCalls(shapes, scale) IN
        /\ RenderState
        /\ Record("render_draw_data", [shapes |-> shapes, scale |-> scale])
        /\ UNCHANGED <<unloads, DisplaySize, style>>
        /\ \/ calls' = c /\ running' = TRUE
           \/ /\ NullDereference(c)
              /\ calls' = BeforeFirstFlush(c)
              /\ running' = FALSE

(* --------------------------- Shape Overlay Helpers --------------------- *)

\* IM_COL32(R, G, B, A): each component cast to ImU32 and shifted into its byte.
\* The 32-bit word is kept as its four bytes, lowest first.
IM_COL32(R, G, B, A) == <<R % 256, G % 256, B % 256, A % 256>>

\* glm::vec4(color, w)
Vec4(color, w) == <<color[1], color[2], color[3], w>>

\* drawlist->AddRect(p_min, p_max, col, rounding, flags = 0, thickness)
DrawRectCalls(pos, size, color, stroke_width, radius) ==
    << [call |-> "AddRect",
        p_min |-> <<pos[1], pos[2]>>,
        p_max |-> <<pos[1] + size[1], pos[2] + size[2]>>,
        col |-> IM_COL32(color[1], color[2], color[3], color[4]),
        rounding |-> radius, flags |-> 0, thickness |-> stroke_width] >>

\* The RGB overload of draw_rect forwards to the RGBA overload.
DrawRectRGBCalls(pos, size, color, stroke_width, radius) ==
    DrawRectCalls(pos, size, Vec4(color, 1), stroke_width, radius)

\* drawlist->AddRectFilled(p_min, p_max, col, rounding, flags)
DrawFilledRectCalls(pos, size, color, radius, flags) ==
    << [call |-> "AddRectFilled",
        p_min |-> <<pos[1], pos[2]>>,
        p_max |-> <<pos[1] + size[1], pos[2] + size[2]>>,
        col |-> IM_COL32(color[1], color[2], color[3], color[4]),
        rounding |-> radius, flags |-> flags, thickness |-> 0] >>

\* The value of the flags parameter when a call leaves it out.
DefaultDrawFlags == 0

\* The RGB overload of draw_filled_rect forwards to the RGBA overload
\* without its flags argument.
DrawFilledRectRGBCalls(pos, size, color, radius, flags) ==
    DrawFilledRectCalls(pos, size, Vec4(color, 1), radius, DefaultDrawFlags)

Helper(op, args, c) ==
    /\ calls' = c
    /\ Record(op, args)
    /\ UNCHANGED <<textures_unloaded, texturePtr, unloads, DisplaySize, TexID, style,
                   running>>

draw_rect ==
    \E pos \in RectPositions, size \in RectSizes, color \in ColorsRGBA,
       stroke_width \in StrokeWidths, radius \in Radii :
        Helper("draw_rect",
               [pos |-> pos, size |-> size, color |-> color,
                stroke_width |-> stroke_width, radius |-> radius, flags |-> 0],
               DrawRectCalls(pos, size, color, stroke_width, radius))

draw_rect_rgb ==
    \E pos \in RectPositions, size \in RectSizes, color \in ColorsRGB,
       stroke_width \in StrokeWidths, radius \in Radii :
        Helper("draw_rect_rgb",
               [pos |-> pos, size |-> size, color |-> color,
                stroke_width |-> stroke_width, radius |-> radius, flags |-> 0],
               DrawRectRGBCalls(pos, size, color, stroke_width, radius))

draw_filled_rect ==
    \E pos \in RectPositions, size \in RectSizes, color \in ColorsRGBA,
       radius \in Radii, flags \in DrawFlags :
        Helper("draw_filled_rect",
               [pos |-> pos, size |-> size, color |-> color,
                stroke_width |-> 0, radius |-> radius, flags |-> flags],
               DrawFilledRectCalls(pos, size, color, radius, flags))

draw_filled_rect_rgb ==
    \E pos \in RectPositions, size \in RectSizes, color \in ColorsRGB,
       radius \in Radii, flags \in DrawFlags :
        Helper("draw_filled_rect_rgb",
               [pos |-> pos, size |-> size, color |-> color,
                stroke_width |-> 0, radius |-> radius, flags |-> flags],
               DrawFilledRectRGBCalls(pos, size, color, radius, flags))

(* ----------------------------- specification --------------------------- *)

Next ==
    \/ set_textures_unloaded
    \/ load_fonts
    \/ initialize_imgui
    \/ new_frame
    \/ render_draw_data
    \/ draw_rect
    \/ draw_rect_rgb
    \/ draw_filled_rect
    \/ draw_filled_rect_rgb

Spec == Init /\ [][Next]_vars

(* ------------------------- reading the call trace ---------------------- *)

IsRender == last.op = "render_draw_data"

EnsureOps == {"load_fonts", "initialize_imgui"}

TessellatorCalls == {"begin", "color", "vertexUV"}

\* Index of the first tessellator call of a trace, Len + 1 when there is none.
FirstTessellatorCall(s) ==
    LET at == { i \in 1..Len(s) : s[i].call \in TessellatorCalls }
    IN  IF at = {} THEN Len(s) + 1 ELSE CHOOSE i \in at : \A j \in at : i <= j

IsVertexCall(e) == e.call \in {"color", "vertexUV"}

IsDrawCall(e) == e.call \in TessellatorCalls \cup {"renderMeshImmediately"}

(* ----------------------------------------------------------------------- *)
(* C1: no mesh flush ever binds a font texture handle that was obtained    *)
(* before the most recent unload notification.                             *)
(* The code clears the flag in set_textures_unloaded, so the next frame    *)
(* flushes with the handle fetched before the unload.                      *)
(* ----------------------------------------------------------------------- *)
C1_NoStaleHandleSubmitted ==
    \A i \in 1..Len(calls) :
        calls[i].call = "renderMeshImmediately" => ~Stale(calls[i].tex)

(* ----------------------------------------------------------------------- *)
(* C2: right after set_textures_unloaded the flag is true, and the call    *)
(* leaves the texture handle untouched and uploads nothing.                *)
(* ----------------------------------------------------------------------- *)
C2_MarkUnloadedSetsFlag ==
    last.op = "set_textures_unloaded" =>
        /\ textures_unloaded = TRUE
        /\ texturePtr = last.texIn
        /\ Uploads(calls) = 0

(* ----------------------------------------------------------------------- *)
(* C3: a render_draw_data that directly follows set_textures_unloaded      *)
(* performs exactly one uploadTexture, before its first tessellator call.  *)
(* ----------------------------------------------------------------------- *)
C3_UnloadThenSubmitReloadsOnce ==
    (IsRender /\ running /\ prev.kind = "unload") =>
        /\ Uploads(calls) = 1
        /\ \E i \in 1..Len(calls) :
              calls[i].call = "uploadTexture" /\ i < FirstTessellatorCall(calls)

(* ----------------------------------------------------------------------- *)
(* C4: a render_draw_data entered with textures_unloaded set uploads the   *)
(* font texture and fetches the handle before any tessellator call, and    *)
(* the flag is false when it returns.                                      *)
(* ----------------------------------------------------------------------- *)
C4_FlaggedSubmitRefreshesFirst ==
    (IsRender /\ last.unloadedIn) =>
        /\ \E i, j \in 1..Len(calls) :
              /\ calls[i].call = "uploadTexture"
              /\ calls[j].call = "getTexture"
              /\ i < j
              /\ j < FirstTessellatorCall(calls)
        /\ textures_unloaded = FALSE

C4_Witness ==
    /\ IsRender
    /\ last.unloadedIn
    /\ Count(calls, "begin") > 0

BatchTags(n, count) ==
    << <<"begin", 0>> >>
    \o [i \in 1..(2 * count) |->
          IF i % 2 = 1 THEN <<"color", n>> ELSE <<"vertexUV", 0>>]
    \o << <<"renderMeshImmediately", 0>> >>

RECURSIVE ListTags(_, _, _)
ListTags(n, shape, k) ==
    IF k > Len(shape) THEN <<>>
    ELSE BatchTags(n, shape[k]) \o ListTags(n, shape, k + 1)

RECURSIVE FrameTags(_, _)
FrameTags(shapes, n) ==
    IF n > Len(shapes) THEN <<>>
    ELSE ListTags(n, shapes[n], 1) \o FrameTags(shapes, n + 1)

TagOf(e) == <<e.call, IF e.call = "color" THEN e.col \div 10 ELSE 0>>

OwnRangeVertices(cmd_list, cmd) ==
    [m \in 1..cmd.ElemCount |->
        LET k == (m - 1) \div 3
            r == (m - 1) % 3
        IN  cmd_list.VtxBuffer[cmd_list.IdxBuffer[cmd.IdxOffset + 3 * k + (2 - r)]]]

RECURSIVE OwnRangeList(_, _)
OwnRangeList(cmd_list, k) ==
    IF k > Len(cmd_list.CmdBuffer) THEN <<>>
    ELSE OwnRangeVertices(cmd_list, cmd_list.CmdBuffer[k]) \o OwnRangeList(cmd_list, k + 1)

RECURSIVE OwnRangeFrame(_, _)
OwnRangeFrame(data, n) ==
    IF n > Len(data) THEN <<>>
    ELSE OwnRangeList(data[n], 1) \o OwnRangeFrame(data, n + 1)

\* An emitted coordinate <<num, den>> is the source coordinate over the scale.
IsQuotient(q, x, scale) == q[2] # 0 /\ q[1] * scale = x * q[2]

\* C7: the emitted vertices are those of each command's own index triplets,
\* reversed, with colour, position / scale and UV.
C7_TrianglesFromOwnIndexRange ==
    (IsRender /\ running) =>
        LET emitted == SelectSeq(calls, IsVertexCall)
            source == OwnRangeFrame(DrawData(last.args.shapes), 1)
            scale == last.args.scale
        IN  /\ Len(emitted) = 2 * Len(source)
            /\ \A m \in 1..Len(source) :
                  /\ emitted[2 * m - 1].call = "color"
                  /\ emitted[2 * m - 1].col = source[m].col
                  /\ emitted[2 * m].call = "vertexUV"
                  /\ IsQuotient(emitted[2 * m].x, source[m].pos[1], scale)
                  /\ IsQuotient(emitted[2 * m].y, source[m].pos[2], scale)
                  /\ emitted[2 * m].u = source[m].uv[1]
                  /\ emitted[2 * m].v = source[m].uv[2]

(* ----------------------------------------------------------------------- *)
(* C8 as stated: with an empty collection render_draw_data makes no call   *)
(* at all, whatever the flag.                                              *)
(* ----------------------------------------------------------------------- *)
C8_EmptyFrameNoCalls ==
    (IsRender /\ last.args.shapes = <<>>) => calls = <<>>

(* ----------------------------------------------------------------------- *)
(* C8 amended: with an empty collection render_draw_data opens no batch    *)
(* and flushes nothing; with the flag clear it makes no call at all, and   *)
(* with the flag set it performs the one reload (one uploadTexture, one    *)
(* getTexture) and clears the flag.                                        *)
(* ----------------------------------------------------------------------- *)
C8_EmptyFrameOnlyReloads ==
    (IsRender /\ last.args.shapes = <<>>) =>
        /\ running
        /\ SelectSeq(calls, IsDrawCall) = <<>>
        /\ ~last.unloadedIn => calls = <<>>
        /\ last.unloadedIn =>
              /\ Uploads(calls) = 1
              /\ Count(calls, "getTexture") = 1
              /\ textures_unloaded = FALSE

C8_Witness ==
    /\ IsRender
    /\ last.args.shapes = <<>>
    /\ ~last.unloadedIn
    /\ texturePtr # NullTexture

(* ----------------------------------------------------------------------- *)
(* C9 as stated: new_frame entered with the texture invalidated reloads    *)
(* it, so that the flag is clear and the texture valid when it returns.    *)
(* ----------------------------------------------------------------------- *)
C9_NewFrameReloads ==
    (last.op = "new_frame" /\ last.unloadedIn) =>
        /\ Uploads(calls) = 1
        /\ textures_unloaded = FALSE
        /\ texturePtr # NullTexture

(* ----------------------------------------------------------------------- *)
(* C9 amended: new_frame only writes the screen size into DisplaySize; it  *)
(* uploads nothing and leaves the flag and the handle as they were, so an  *)
(* invalidated texture stays invalidated until render_draw_data reloads    *)
(* it.                                                                     *)
(* ----------------------------------------------------------------------- *)
C9_NewFrameOnlySyncsDisplaySize ==
    last.op = "new_frame" =>
        /\ DisplaySize = last.args.screenSize
        /\ calls = <<>>
        /\ textures_unloaded = last.unloadedIn
        /\ texturePtr = last.texIn

C9_Witness ==
    /\ last.op = "new_frame"
    /\ last.unloadedIn
    /\ textures_unloaded

(* ----------------------------------------------------------------------- *)
(* C10: the RGB overloads of draw_rect and draw_filled_rect draw what the  *)
(* RGBA overloads draw for the same arguments and alpha 255, and           *)
(* draw_filled_rect passes its flags on.                                   *)
(* The code builds glm::vec4(color, 1.0f), whose alpha byte is 1, and the  *)
(* RGB draw_filled_rect drops flags.                                       *)
(* ----------------------------------------------------------------------- *)
C10_RGBOverloadsOpaque ==
    LET a == last.args IN
    /\ last.op = "draw_rect_rgb" =>
          calls = DrawRectCalls(a.pos, a.size, Vec4(a.color, 255),
                                a.stroke_width, a.radius)
    /\ last.op = "draw_filled_rect_rgb" =>
          calls = DrawFilledRectCalls(a.pos, a.size, Vec4(a.color, 255),
                                      a.radius, a.flags)

====
